---- MODULE Spec2Model ----
(***************************************************************************)
(* One request through commonRouter (package router): ServeHTTP,           *)
(* HandlePayload with its deferred finalizer, the worker goroutine running *)
(* callHandler, the deadline timer of getTimeoutChan and the payload's     *)
(* incoming (parent) context.  The dispatcher and the worker are two       *)
(* processes; every access to the variables they share (resp.Err,          *)
(* resp.Result, httpStatus) is a step of its own, so that the unsynchro-   *)
(* nised accesses of the source interleave in every order.                 *)
(*                                                                         *)
(* The logger registry (package logging) is modelled beside it: goroutines *)
(* calling Logger(name) and Loggers() under the package's one mutex, each  *)
(* statement under the lock a step of its own.  The router is one of its   *)
(* callers (CreateLogger with the name "router"); what it does with the    *)
(* logger it gets is log emission and is left out.                         *)
(***************************************************************************)
EXTENDS Integers, Sequences, FiniteSets, TLC

\* Largest number of pre-processors of a route.
MaxProcs == 2
\* Largest configured ResponseTimeout (seconds); the smallest is -1.
MaxTimeout == 1
\* Largest number of HandlePayload calls made with one Response.
MaxCalls == 2

\* Largest number of goroutines calling into the logger registry.
MaxCallers == 2
\* Largest number of configure-handler calls that panic.
MaxPanics == 1

StatusOK == 200
StatusNotFound == 404

None == "None"
Timeouts == -1..MaxTimeout
\* Status hints a processor may return: the default, another 2xx, a non-2xx.
Hints == {200, 201, 403}
\* Errors a processor / the handler may store in Response.Err.
ProcErrs == {"NotAuthenticated"}
HandlerErrs == {"InvalidArgument"}
HandlerResults == {"HandlerResult"}

\* The goroutines that call Logger and Loggers.
Callers == 1..MaxCallers
\* Logger names: the pre-registered "", and the router's.
Names == {"", "router"}
\* Values of configureLoggerHandler: unset, or a handler.
Handlers == {"nil", "handler"}
\* Loggers are told apart by their address: the nil pointer, the logger of
\* logrus.StandardLogger(), and above it those allocated by logrus.New().
NilLogger == 0
StandardLogger == 1

VARIABLES
    ResponseTimeout,  \* commonRouter.ResponseTimeout
    pc,               \* dispatcher: position in ServeHTTP / HandlePayload
    wpc,              \* worker goroutine: position in callHandler
    respWriter,       \* resp.writer: "w" or "nil"
    respErr,          \* resp.Err
    respResult,       \* resp.Result
    httpStatus,       \* HandlePayload's httpStatus, shared with the worker
    timedOut,         \* HandlePayload's timedOut
    pendingPanic,     \* a panic unwinding HandlePayload, not yet recovered
    escaped,          \* a panic left HandlePayload unrecovered
    nprocs,           \* len(rc.Preprocessors)
    idx,              \* callHandler: index of the processor in the range loop
    lstatus,          \* callHandler's named result httpStatus
    cancelCalled,     \* cancelFunc of the derived context was called
    parentCancelled,  \* the payload's incoming context is cancelled
    timerFired,       \* the channel of getTimeoutChan delivered
    contentType,      \* writer.Header()["Content-Type"] is application/json
    wire,             \* what has been written to the http.ResponseWriter
    invoked,          \* log: processors (1..n) and handler (n+1) invoked
    errSeen,          \* log: resp.Err != nil as read after each Preprocess
    hints,            \* log: the status hint each Preprocess call returned
    procErr,          \* log: the processor that stored an error, its hint
    workerPanicked,   \* log: callHandler recovered a panic
    decodeOutcome,    \* log: "none", "ok", "fail"
    matchOutcome,     \* log: "none", "ok", "err", "panic"
    calls,            \* number of HandlePayload calls made with this Response
    loggers,          \* logging: the registry map, name -> logger
    lock,             \* logging: the goroutines holding the mutex
    configureLoggerHandler,  \* logging: the handler, or "nil"
    lpc,              \* caller: position in Logger / Loggers
    lname,            \* caller: Logger's argument name
    llogger,          \* caller: Logger's local logger
    lhandler,         \* caller: Logger's local handler
    ret,              \* caller: the map built by its last Loggers call
    lref,             \* caller: the map Loggers returned to it
    nextLogger,       \* the logger the next logrus.New() allocates
    panics,           \* number of configure-handler calls that panicked
    configured,       \* log: <<name, logger>> -> calls of the handler on it
    creation          \* log: name -> the handler its creating call read

vars == << ResponseTimeout, pc, wpc, respWriter, respErr, respResult,
           httpStatus, timedOut, pendingPanic, escaped, nprocs, idx, lstatus,
           cancelCalled, parentCancelled, timerFired, contentType, wire,
           invoked, errSeen, hints, procErr, workerPanicked, decodeOutcome,
           matchOutcome, calls, loggers, lock, configureLoggerHandler, lpc,
           lname, llogger, lhandler, ret, lref, nextLogger, panics, configured,
           creation >>

dispVars == << pc, respWriter, timedOut, pendingPanic, escaped, contentType,
               wire, decodeOutcome, matchOutcome, calls >>
workVars == << wpc, idx, lstatus, invoked, errSeen, hints, procErr,
               workerPanicked >>
envVars  == << parentCancelled, timerFired >>
routerVars == << ResponseTimeout, respErr, respResult, httpStatus, nprocs,
                 cancelCalled, dispVars, workVars, envVars >>
logVars  == << loggers, lock, configureLoggerHandler, lpc, lname, llogger,
               lhandler, ret, lref, nextLogger, panics, configured, creation >>

NoWire == [statusWrites |-> 0, status |-> 0, contentType |-> FALSE,
           bodyWrites |-> 0, err |-> None, result |-> None]
NoProcErr == [idx |-> 0, err |-> None, hint |-> 0]
\* map[string]*logrus.Logger{}
EmptyMap == [n \in {} |-> NilLogger]

----------------------------------------------------------------------------
\* Pure helpers.

\* The handler's place in the invocation log: after the n processors.
HandlerMark == nprocs + 1

\* defaultStatusCode: the canonical HTTP status of an error code.
DefaultStatusCode(err) ==
    CASE err = "BadRequest"         -> 400
      [] err = "InvalidArgument"    -> 400
      [] err = "NotAuthenticated"   -> 401
      [] err = "UndefinedOperation" -> 404
      [] err = "ResponseTimeout"    -> 503
      [] OTHER                      -> 500

\* skyerr.NewRequestJSONInvalidErr(err).Code()
RequestJSONInvalidErr == "BadRequest"
\* errorFromRecoveringPanic(r).Code()
ErrorFromRecoveringPanic == "UnexpectedError"

\* (mutant) getTimeoutChan without its test of the duration: time.After
\* on every duration.
TimerArmedAlways(timeout) == TRUE

\* (mutant) getTimeoutChan returning the channel that never delivers on
\* every duration.
TimerArmedNever(timeout) == FALSE

\* getTimeoutChan: the returned channel ever delivers iff timeout.Seconds() > 0.
TimerArmed(timeout) == timeout > 0

\* payload.Context().Done() is closed: the derived context was cancelled by
\* cancelFunc or through its parent.
CtxDone == cancelCalled \/ parentCancelled

\* WriteHeader(status) on the http.ResponseWriter.
WriteHeader(w, status) ==
    [w EXCEPT !.statusWrites = w.statusWrites + 1,
              !.status = status,
              !.contentType = contentType]

\* writeEntity: json-encode the Response (its Result and Err) to the writer.
WriteEntity(w) ==
    [w EXCEPT !.bodyWrites = w.bodyWrites + 1,
              !.err = respErr,
              !.result = respResult]

----------------------------------------------------------------------------
\* The state after construction: a router with some ResponseTimeout, and a
\* request about to enter ServeHTTP; the logger registry as the package's
\* init() leaves it, no configure handler set, no caller inside.

Init ==
    /\ ResponseTimeout \in Timeouts
    /\ pc = "start"
    /\ wpc = "idle"
    /\ respWriter = "nil"
    /\ respErr = None
    /\ respResult = None
    /\ httpStatus = StatusOK
    /\ timedOut = FALSE
    /\ pendingPanic = FALSE
    /\ escaped = FALSE
    /\ nprocs = 0
    /\ idx = 0
    /\ lstatus = StatusOK
    /\ cancelCalled = FALSE
    /\ parentCancelled = FALSE
    /\ timerFired = FALSE
    /\ contentType = FALSE
    /\ wire = NoWire
    /\ invoked = << >>
    /\ errSeen = << >>
    /\ hints = << >>
    /\ procErr = NoProcErr
    /\ workerPanicked = FALSE
    /\ decodeOutcome = "none"
    /\ matchOutcome = "none"
    /\ calls = 0
    /\ loggers = [n \in {""} |-> StandardLogger]
    /\ lock = {}
    /\ configureLoggerHandler = "nil"
    /\ lpc = [p \in Callers |-> "idle"]
    /\ lname = [p \in Callers |-> ""]
    /\ llogger = [p \in Callers |-> NilLogger]
    /\ lhandler = [p \in Callers |-> "nil"]
    /\ ret = [p \in Callers |-> EmptyMap]
    /\ lref = [p \in Callers |-> "none"]
    /\ nextLogger = StandardLogger + 1
    /\ panics = 0
    /\ configured = [c \in {} |-> 0]
    /\ creation = [n \in {} |-> "nil"]

----------------------------------------------------------------------------
\* The dispatcher: ServeHTTP.

\* (mutant) the decode-failure branch without its return: ServeHTTP goes on
\* to HandlePayload.
ServeHTTPDecodeFailNoReturn ==
    /\ respErr' = RequestJSONInvalidErr
    /\ wire' = WriteHeader(wire, DefaultStatusCode(RequestJSONInvalidErr))
    /\ decodeOutcome' = "fail"
    /\ calls' = calls + 1
    /\ pc' = "match"

\* payloadFunc returned an error: store it, write its status, return.
ServeHTTPDecodeFail ==
    /\ respErr' = RequestJSONInvalidErr
    /\ wire' = WriteHeader(wire, DefaultStatusCode(RequestJSONInvalidErr))
    /\ decodeOutcome' = "fail"
    /\ pc' = "done"
    /\ UNCHANGED calls

ServeHTTP ==
    /\ pc = "start"
    /\ respWriter' = "w"
    /\ \/ ServeHTTPDecodeFail
       \/ /\ decodeOutcome' = "ok"
          /\ calls' = calls + 1
          /\ pc' = "match"
          /\ UNCHANGED << respErr, wire >>
    /\ UNCHANGED << ResponseTimeout, respResult, httpStatus, timedOut,
                    pendingPanic, escaped, nprocs, cancelCalled, contentType,
                    matchOutcome >>
    /\ UNCHANGED workVars
    /\ UNCHANGED envVars
    /\ UNCHANGED logVars

----------------------------------------------------------------------------
\* The dispatcher: HandlePayload up to the select.

\* The worker goroutine is started on a route with n pre-processors;
\* callHandler begins with httpStatus = 200.
StartWorker(n) ==
    /\ nprocs' = n
    /\ idx' = 1
    /\ lstatus' = StatusOK
    /\ wpc' = IF n = 0 THEN "handle" ELSE "pre"
    /\ pc' = "select"

\* (mutant) the no-route branch without its return: the worker is started
\* on the zero routeConfig.
MatchFailNoReturn ==
    /\ httpStatus' = StatusNotFound
    /\ respErr' = "UndefinedOperation"
    /\ matchOutcome' = "err"
    /\ StartWorker(0)
    /\ UNCHANGED pendingPanic

\* matchHandlerFunc returned an error: 404, UndefinedOperation, return.
MatchFail ==
    /\ httpStatus' = StatusNotFound
    /\ respErr' = "UndefinedOperation"
    /\ matchOutcome' = "err"
    /\ pc' = "fin"
    /\ UNCHANGED << nprocs, idx, lstatus, wpc, pendingPanic >>

\* matchHandlerFunc panicked: the deferred finalizer runs with the panic.
MatchPanic ==
    /\ pendingPanic' = TRUE
    /\ matchOutcome' = "panic"
    /\ pc' = "fin"
    /\ UNCHANGED << nprocs, idx, lstatus, wpc, httpStatus, respErr >>

MatchOk ==
    /\ matchOutcome' = "ok"
    /\ \E n \in 0..MaxProcs : StartWorker(n)
    /\ UNCHANGED << httpStatus, respErr, pendingPanic >>

HandlePayloadMatch ==
    /\ pc = "match"
    /\ \/ MatchFail
       \/ MatchPanic
       \/ MatchOk
    /\ UNCHANGED << ResponseTimeout, respWriter, respResult, timedOut, escaped,
                    cancelCalled, contentType, wire, invoked, errSeen, hints,
                    procErr,
                    workerPanicked, decodeOutcome >>
    /\ UNCHANGED envVars
    /\ UNCHANGED calls
    /\ UNCHANGED logVars

\* (mutant) a select with a default case: it never waits.
SelectBranchesDefault ==
    {b \in {"done", "timeout", "default"} : \/ b = "done" /\ CtxDone
                                            \/ b = "timeout" /\ timerFired
                                            \/ b = "default"}

\* The cases of the select that are ready.
SelectBranches ==
    {b \in {"done", "timeout"} : \/ b = "done" /\ CtxDone
                                 \/ b = "timeout" /\ timerFired}

\* (mutant) HandlePayload without its deferred cancelFunc.
HandlePayloadSelectNoCancel ==
    /\ pc = "select"
    /\ \E b \in SelectBranches : timedOut' = (b = "timeout")
    /\ pc' = "fin"
    /\ UNCHANGED << ResponseTimeout, respWriter, respErr, respResult,
                    httpStatus, pendingPanic, escaped, nprocs, contentType,
                    wire, decodeOutcome, matchOutcome, cancelCalled, calls >>
    /\ UNCHANGED workVars
    /\ UNCHANGED envVars
    /\ UNCHANGED logVars

\* The select returns through one ready case; the deferred cancelFunc runs
\* first, then the deferred finalizer.
HandlePayloadSelect ==
    /\ pc = "select"
    /\ \E b \in SelectBranches : timedOut' = (b = "timeout")
    /\ cancelCalled' = TRUE
    /\ pc' = "fin"
    /\ UNCHANGED << ResponseTimeout, respWriter, respErr, respResult,
                    httpStatus, pendingPanic, escaped, nprocs, contentType,
                    wire, decodeOutcome, matchOutcome >>
    /\ UNCHANGED workVars
    /\ UNCHANGED envVars
    /\ UNCHANGED calls
    /\ UNCHANGED logVars

----------------------------------------------------------------------------
\* The dispatcher: the deferred finalizer of HandlePayload.

\* Response.Writer(): the write target it returns ...
Writer == respWriter
\* (mutant) Writer() as a plain getter: the target stays in the Response.
WriterKept == respWriter

\* ... and the one it leaves in the Response: the target is consumed.
WriterTaken == "nil"

\* (mutant) the recover swallows the panic and stores no error.
RecoverErrDropped(panicking, err) == err

\* if r := recover(); r != nil { resp.Err = errorFromRecoveringPanic(r) }
RecoverErr(panicking, err) ==
    IF panicking THEN ErrorFromRecoveringPanic ELSE err

\* if writer == nil: the response is already written.
AlreadyWritten(writer) == writer = "nil"

\* recover(), resp.Writer(), the nil check and the Content-Type header.
FinBegin ==
    /\ pc = "fin"
    /\ respErr' = RecoverErr(pendingPanic, respErr)
    /\ pendingPanic' = FALSE
    /\ IF AlreadyWritten(Writer)
       THEN /\ pc' = "done"
            /\ UNCHANGED << respWriter, contentType >>
       ELSE /\ respWriter' = WriterTaken
            /\ contentType' = TRUE
            /\ pc' = "fin_timeout"
    /\ UNCHANGED << ResponseTimeout, respResult, httpStatus, timedOut, escaped,
                    nprocs, cancelCalled, wire, decodeOutcome, matchOutcome >>
    /\ UNCHANGED workVars
    /\ UNCHANGED envVars
    /\ UNCHANGED calls
    /\ UNCHANGED logVars

\* if timedOut { resp.Err = ResponseTimeout }
FinTimeout ==
    /\ pc = "fin_timeout"
    /\ respErr' = IF timedOut THEN "ResponseTimeout" ELSE respErr
    /\ pc' = "fin_status"
    /\ UNCHANGED << ResponseTimeout, respWriter, respResult, httpStatus,
                    timedOut, pendingPanic, escaped, nprocs, cancelCalled,
                    contentType, wire, decodeOutcome, matchOutcome >>
    /\ UNCHANGED workVars
    /\ UNCHANGED envVars
    /\ UNCHANGED calls
    /\ UNCHANGED logVars

\* The status the finalizer resolves from resp.Err and httpStatus.
ResolveStatus(err, status) ==
    IF err # None /\ status >= 200 /\ status <= 299
    THEN DefaultStatusCode(err)
    ELSE status

FinStatus ==
    /\ pc = "fin_status"
    /\ httpStatus' = ResolveStatus(respErr, httpStatus)
    /\ pc' = "fin_header"
    /\ UNCHANGED << ResponseTimeout, respWriter, respErr, respResult, timedOut,
                    pendingPanic, escaped, nprocs, cancelCalled, contentType,
                    wire, decodeOutcome, matchOutcome >>
    /\ UNCHANGED workVars
    /\ UNCHANGED envVars
    /\ UNCHANGED calls
    /\ UNCHANGED logVars

\* writer.WriteHeader(httpStatus)
FinWriteHeader ==
    /\ pc = "fin_header"
    /\ wire' = WriteHeader(wire, httpStatus)
    /\ pc' = "fin_body"
    /\ UNCHANGED << ResponseTimeout, respWriter, respErr, respResult,
                    httpStatus, timedOut, pendingPanic, escaped, nprocs,
                    cancelCalled, contentType, decodeOutcome, matchOutcome >>
    /\ UNCHANGED workVars
    /\ UNCHANGED envVars
    /\ UNCHANGED calls
    /\ UNCHANGED logVars

\* writeEntity(writer, resp); an encoding error is re-raised as a panic,
\* which leaves HandlePayload.
FinWriteEntity ==
    /\ pc = "fin_body"
    /\ \/ /\ wire' = WriteEntity(wire)
          /\ UNCHANGED escaped
       \/ /\ escaped' = TRUE
          /\ UNCHANGED wire
    /\ pc' = "done"
    /\ UNCHANGED << ResponseTimeout, respWriter, respErr, respResult,
                    httpStatus, timedOut, pendingPanic, nprocs, cancelCalled,
                    contentType, decodeOutcome, matchOutcome >>
    /\ UNCHANGED workVars
    /\ UNCHANGED envVars
    /\ UNCHANGED calls
    /\ UNCHANGED logVars

----------------------------------------------------------------------------
\* The worker goroutine: callHandler, then the assignment to httpStatus and
\* cancelFunc.

\* What a Preprocess call may do: return a hint, store an error and return a
\* hint, or panic.
ProcOutcomes ==
    [kind : {"pass"}, hint : Hints, err : {None}]
      \cup [kind : {"fail"}, hint : Hints, err : ProcErrs]
      \cup [kind : {"panic"}, hint : {StatusOK}, err : {None}]

\* What a Handle call may do: store a result, store an error, or panic.
HandlerOutcomes ==
    [kind : {"result"}, val : HandlerResults]
      \cup [kind : {"error"}, val : HandlerErrs]
      \cup [kind : {"panic"}, val : {None}]

\* (mutant) the recover stores the error and keeps the status it found.
RecoveredKeepStatus(status) ==
    [err |-> ErrorFromRecoveringPanic, status |-> status]

\* callHandler's deferred recover: the error and the status it leaves.
Recovered(status) ==
    [err |-> ErrorFromRecoveringPanic,
     status |-> DefaultStatusCode(ErrorFromRecoveringPanic)]

\* The recovered panic ends callHandler.
WorkerRecover ==
    /\ respErr' = Recovered(lstatus).err
    /\ lstatus' = Recovered(lstatus).status
    /\ workerPanicked' = TRUE
    /\ wpc' = "ret"

\* httpStatus = p.Preprocess(payload, resp)
WorkerPreprocess ==
    /\ wpc = "pre"
    /\ invoked' = Append(invoked, idx)
    /\ \E o \in ProcOutcomes :
         \/ /\ o.kind = "pass"
            /\ lstatus' = o.hint
            /\ hints' = Append(hints, o.hint)
            /\ wpc' = "chk"
            /\ UNCHANGED << respErr, procErr, workerPanicked >>
         \/ /\ o.kind = "fail"
            /\ respErr' = o.err
            /\ lstatus' = o.hint
            /\ hints' = Append(hints, o.hint)
            /\ procErr' = [idx |-> idx, err |-> o.err, hint |-> o.hint]
            /\ wpc' = "chk"
            /\ UNCHANGED workerPanicked
         \/ /\ o.kind = "panic"
            /\ WorkerRecover
            /\ UNCHANGED << hints, procErr >>
    /\ UNCHANGED << idx, errSeen, respResult, httpStatus, nprocs,
                    cancelCalled, ResponseTimeout >>
    /\ UNCHANGED dispVars
    /\ UNCHANGED envVars
    /\ UNCHANGED logVars

\* (mutant) the chain never halts on an error.
ChainHaltsNever(err) == FALSE

\* if resp.Err != nil: the chain halts.
ChainHalts(err) == err # None

\* The status callHandler returns when the chain halts on err.
HaltStatus(err, status) ==
    IF status = StatusOK THEN DefaultStatusCode(err) ELSE status

\* The check of resp.Err after a Preprocess call, and the loop's advance.
WorkerCheck ==
    /\ wpc = "chk"
    /\ errSeen' = Append(errSeen, respErr # None)
    /\ IF ChainHalts(respErr)
       THEN /\ lstatus' = HaltStatus(respErr, lstatus)
            /\ wpc' = "ret"
            /\ UNCHANGED idx
       ELSE /\ idx' = idx + 1
            /\ wpc' = IF idx + 1 > nprocs THEN "handle" ELSE "pre"
            /\ UNCHANGED lstatus
    /\ UNCHANGED << invoked, hints, procErr, workerPanicked, respErr,
                    respResult, httpStatus, nprocs, cancelCalled,
                    ResponseTimeout >>
    /\ UNCHANGED dispVars
    /\ UNCHANGED envVars
    /\ UNCHANGED logVars

\* (mutant) callHandler returns 200 once the handler has run, whatever the
\* processors returned.
HandleStatusReset(status) == StatusOK

\* return httpStatus: the status callHandler returns once Handle has
\* returned is the one the processor loop left.
HandleStatus(status) == status

\* handler.Handle(payload, resp); return httpStatus
WorkerHandle ==
    /\ wpc = "handle"
    /\ invoked' = Append(invoked, HandlerMark)
    /\ \E o \in HandlerOutcomes :
         \/ /\ o.kind = "result"
            /\ respResult' = o.val
            /\ lstatus' = HandleStatus(lstatus)
            /\ wpc' = "ret"
            /\ UNCHANGED << respErr, workerPanicked >>
         \/ /\ o.kind = "error"
            /\ respErr' = o.val
            /\ lstatus' = HandleStatus(lstatus)
            /\ wpc' = "ret"
            /\ UNCHANGED << respResult, workerPanicked >>
         \/ /\ o.kind = "panic"
            /\ WorkerRecover
            /\ UNCHANGED respResult
    /\ UNCHANGED << idx, errSeen, hints, procErr, httpStatus, nprocs,
                    cancelCalled, ResponseTimeout >>
    /\ UNCHANGED dispVars
    /\ UNCHANGED envVars
    /\ UNCHANGED logVars

\* (mutant) the worker assigns httpStatus only while the dispatcher has not
\* begun to finalize: an ownership claim.
WorkerReturnClaimed ==
    /\ wpc = "ret"
    /\ pc \notin {"fin", "fin_timeout", "fin_status", "fin_header", "fin_body"}
    /\ httpStatus' = lstatus
    /\ wpc' = "cancel"
    /\ UNCHANGED << idx, lstatus, invoked, errSeen, hints, procErr,
                    workerPanicked,
                    respErr, respResult, nprocs, cancelCalled,
                    ResponseTimeout >>
    /\ UNCHANGED dispVars
    /\ UNCHANGED envVars
    /\ UNCHANGED logVars

\* (mutant) the worker goroutine writes the status it got itself.
WorkerReturnWrites ==
    /\ wpc = "ret"
    /\ httpStatus' = lstatus
    /\ wire' = WriteHeader(wire, lstatus)
    /\ wpc' = "cancel"
    /\ UNCHANGED << idx, lstatus, invoked, errSeen, hints, procErr,
                    workerPanicked,
                    respErr, respResult, nprocs, cancelCalled,
                    ResponseTimeout, pc, respWriter, timedOut, pendingPanic,
                    escaped, contentType, decodeOutcome, matchOutcome, calls >>
    /\ UNCHANGED envVars
    /\ UNCHANGED logVars

\* httpStatus = r.callHandler(...): the write to the shared variable.
WorkerReturn ==
    /\ wpc = "ret"
    /\ httpStatus' = lstatus
    /\ wpc' = "cancel"
    /\ UNCHANGED << idx, lstatus, invoked, errSeen, hints, procErr,
                    workerPanicked,
                    respErr, respResult, nprocs, cancelCalled,
                    ResponseTimeout >>
    /\ UNCHANGED dispVars
    /\ UNCHANGED envVars
    /\ UNCHANGED logVars

\* (mutant) the worker goroutine ends without calling cancelFunc.
WorkerCancelForgotten ==
    /\ wpc = "cancel"
    /\ wpc' = "exit"
    /\ UNCHANGED << idx, lstatus, invoked, errSeen, hints, procErr,
                    workerPanicked,
                    respErr, respResult, httpStatus, nprocs, ResponseTimeout,
                    cancelCalled >>
    /\ UNCHANGED dispVars
    /\ UNCHANGED envVars
    /\ UNCHANGED logVars

\* cancelFunc(): the worker's completion signal.
WorkerCancel ==
    /\ wpc = "cancel"
    /\ cancelCalled' = TRUE
    /\ wpc' = "exit"
    /\ UNCHANGED << idx, lstatus, invoked, errSeen, hints, procErr,
                    workerPanicked,
                    respErr, respResult, httpStatus, nprocs, ResponseTimeout >>
    /\ UNCHANGED dispVars
    /\ UNCHANGED envVars
    /\ UNCHANGED logVars

----------------------------------------------------------------------------
\* The environment.

\* The timer of getTimeoutChan delivers, once the select waits on it.
TimerFire ==
    /\ pc = "select"
    /\ TimerArmed(ResponseTimeout)
    /\ ~timerFired
    /\ timerFired' = TRUE
    /\ UNCHANGED << ResponseTimeout, respErr, respResult, httpStatus, nprocs,
                    cancelCalled, parentCancelled >>
    /\ UNCHANGED dispVars
    /\ UNCHANGED workVars
    /\ UNCHANGED logVars

\* The payload's incoming context is cancelled (the client went away); the
\* context derived from it by context.WithCancel is cancelled with it.
ParentCancel ==
    /\ pc # "done"
    /\ ~parentCancelled
    /\ parentCancelled' = TRUE
    /\ UNCHANGED << ResponseTimeout, respErr, respResult, httpStatus, nprocs,
                    cancelCalled, timerFired >>
    /\ UNCHANGED dispVars
    /\ UNCHANGED workVars
    /\ UNCHANGED logVars

----------------------------------------------------------------------------
\* A caller's further call of HandlePayload with the same payload and the
\* Response of an earlier call, made once that call has returned and its
\* worker has ended: fresh httpStatus and timedOut, a fresh derived context
\* and timer, the Response and the wire as the earlier call left them.  The
\* logs are those of the call running.
HandlePayloadAgain ==
    /\ pc = "done"
    /\ decodeOutcome = "ok"
    /\ wpc \in {"idle", "exit"}
    /\ calls < MaxCalls
    /\ calls' = calls + 1
    /\ pc' = "match"
    /\ httpStatus' = StatusOK
    /\ timedOut' = FALSE
    /\ cancelCalled' = FALSE
    /\ timerFired' = FALSE
    /\ wpc' = "idle"
    /\ nprocs' = 0
    /\ idx' = 0
    /\ lstatus' = StatusOK
    /\ invoked' = << >>
    /\ errSeen' = << >>
    /\ hints' = << >>
    /\ procErr' = NoProcErr
    /\ workerPanicked' = FALSE
    /\ matchOutcome' = "none"
    /\ UNCHANGED << ResponseTimeout, respWriter, respErr, respResult,
                    pendingPanic, escaped, parentCancelled, contentType, wire,
                    decodeOutcome >>
    /\ UNCHANGED logVars

----------------------------------------------------------------------------
Next ==
    \/ ServeHTTP
    \/ HandlePayloadMatch
    \/ HandlePayloadSelect
    \/ FinBegin
    \/ FinTimeout
    \/ FinStatus
    \/ FinWriteHeader
    \/ FinWriteEntity
    \/ WorkerPreprocess
    \/ WorkerCheck
    \/ WorkerHandle
    \/ WorkerReturn
    \/ WorkerCancel
    \/ TimerFire
    \/ ParentCancel

Spec == Init /\ [][Next]_vars

\* The dispatcher goroutine is scheduled whenever it can take a step.
DispatcherFair ==
    /\ WF_vars(ServeHTTP)
    /\ WF_vars(HandlePayloadMatch)
    /\ WF_vars(HandlePayloadSelect)
    /\ WF_vars(FinBegin)
    /\ WF_vars(FinTimeout)
    /\ WF_vars(FinStatus)
    /\ WF_vars(FinWriteHeader)
    /\ WF_vars(FinWriteEntity)

\* The runtime delivers on the channel of time.After.
TimerFair == WF_vars(TimerFire)

\* The worker goroutine is scheduled, and its processors and handler return.
WorkerFair ==
    /\ WF_vars(WorkerPreprocess)
    /\ WF_vars(WorkerCheck)
    /\ WF_vars(WorkerHandle)
    /\ WF_vars(WorkerReturn)
    /\ WF_vars(WorkerCancel)

\* Fair dispatcher and timer; the worker may stop anywhere (a processor or
\* handler that never returns).
SpecDeadline == Spec /\ DispatcherFair /\ TimerFair

\* Fair dispatcher, timer and worker.
SpecFair == Spec /\ DispatcherFair /\ TimerFair /\ WorkerFair

\* One request, and further calls of HandlePayload with its Response.
NextAgain ==
    \/ Next
    \/ HandlePayloadAgain

SpecAgain == Init /\ [][NextAgain]_vars

----------------------------------------------------------------------------
\* The logger registry: Logger, Loggers and SetConfigureLoggerHandler.

\* m[k] = v on a Go map.
Put(m, k, v) == [x \in DOMAIN m \cup {k} |-> IF x = k THEN v ELSE m[x]]
\* The count a log keeps for k.
Count(m, k) == IF k \in DOMAIN m THEN m[k] ELSE 0
\* delete(m, k) on a Go map.
Delete(m, k) == [x \in DOMAIN m \ {k} |-> m[x]]

\* (mutant) Logger and Loggers without the mutex.
CanLockAlways(p) == TRUE

\* lock.Lock() returns once no goroutine holds the mutex.
CanLock(p) == lock = {}

\* The deferred lock.Unlock().
Unlock(p) == lock' = lock \ {p}

\* Logger(name) is called and takes the lock.
LoggerLock(p) ==
    /\ lpc[p] = "idle"
    /\ CanLock(p)
    /\ lock' = lock \cup {p}
    /\ \E name \in Names : lname' = [lname EXCEPT ![p] = name]
    /\ lpc' = [lpc EXCEPT ![p] = "lookup"]
    /\ UNCHANGED << loggers, configureLoggerHandler, llogger, lhandler, ret,
                    lref, nextLogger, panics, configured, creation >>
    /\ UNCHANGED routerVars

\* logger, ok := loggers[name]; if !ok { ... }
LoggerLookup(p) ==
    /\ lpc[p] = "lookup"
    /\ IF lname[p] \in DOMAIN loggers
       THEN /\ llogger' = [llogger EXCEPT ![p] = loggers[lname[p]]]
            /\ lpc' = [lpc EXCEPT ![p] = "return"]
       ELSE /\ llogger' = [llogger EXCEPT ![p] = NilLogger]
            /\ lpc' = [lpc EXCEPT ![p] = "new"]
    /\ UNCHANGED << loggers, lock, configureLoggerHandler, lname, lhandler,
                    ret, lref, nextLogger, panics, configured,
                    creation >>
    /\ UNCHANGED routerVars

\* logger = logrus.New(): a logger no one else has (it is never nil).
LoggerNew(p) ==
    /\ lpc[p] = "new"
    /\ llogger' = [llogger EXCEPT ![p] = nextLogger]
    /\ nextLogger' = nextLogger + 1
    /\ lpc' = [lpc EXCEPT ![p] = "configure"]
    /\ UNCHANGED << loggers, lock, configureLoggerHandler, lname, lhandler,
                    ret, lref, panics, configured, creation >>
    /\ UNCHANGED routerVars

\* The handler panics: the deferred Unlock runs, Logger returns nothing and
\* its logger is dropped.
LoggerConfigurePanic(p) ==
    /\ panics < MaxPanics
    /\ panics' = panics + 1
    /\ Unlock(p)
    /\ lpc' = [lpc EXCEPT ![p] = "idle"]
    /\ lname' = [lname EXCEPT ![p] = ""]
    /\ llogger' = [llogger EXCEPT ![p] = NilLogger]
    /\ lhandler' = [lhandler EXCEPT ![p] = "nil"]

\* handler := configureLoggerHandler
\* if handler != nil { handler(name, logger) }
LoggerConfigure(p) ==
    /\ lpc[p] = "configure"
    /\ IF configureLoggerHandler # "nil"
       THEN /\ configured' =
                 Put(configured, << lname[p], llogger[p] >>,
                     Count(configured, << lname[p], llogger[p] >>) + 1)
            /\ \/ /\ lhandler' = [lhandler EXCEPT ![p] = configureLoggerHandler]
                  /\ lpc' = [lpc EXCEPT ![p] = "store"]
                  /\ UNCHANGED << lock, lname, llogger, panics >>
               \/ LoggerConfigurePanic(p)
       ELSE /\ lhandler' = [lhandler EXCEPT ![p] = "nil"]
            /\ lpc' = [lpc EXCEPT ![p] = "store"]
            /\ UNCHANGED << lock, lname, llogger, panics, configured >>
    /\ UNCHANGED << loggers, configureLoggerHandler, ret, lref, nextLogger,
                    creation >>
    /\ UNCHANGED routerVars

\* loggers[name] = logger
LoggerStore(p) ==
    /\ lpc[p] = "store"
    /\ loggers' = Put(loggers, lname[p], llogger[p])
    /\ creation' = Put(creation, lname[p], lhandler[p])
    /\ lpc' = [lpc EXCEPT ![p] = "return"]
    /\ UNCHANGED << lock, configureLoggerHandler, lname, llogger, lhandler,
                    ret, lref, nextLogger, panics, configured >>
    /\ UNCHANGED routerVars

\* return logger, and the deferred Unlock.
LoggerReturn(p) ==
    /\ lpc[p] = "return"
    /\ Unlock(p)
    /\ lpc' = [lpc EXCEPT ![p] = "idle"]
    /\ lname' = [lname EXCEPT ![p] = ""]
    /\ llogger' = [llogger EXCEPT ![p] = NilLogger]
    /\ lhandler' = [lhandler EXCEPT ![p] = "nil"]
    /\ UNCHANGED << loggers, configureLoggerHandler, ret, lref, nextLogger,
                    panics, configured, creation >>
    /\ UNCHANGED routerVars

\* Loggers() is called and takes the lock.
LoggersLock(p) ==
    /\ lpc[p] = "idle"
    /\ CanLock(p)
    /\ lock' = lock \cup {p}
    /\ lpc' = [lpc EXCEPT ![p] = "copy"]
    /\ UNCHANGED << loggers, configureLoggerHandler, lname, llogger, lhandler,
                    ret, lref, nextLogger, panics, configured,
                    creation >>
    /\ UNCHANGED routerVars

\* ret := map[string]*logrus.Logger{}; for ... { ret[loggerName] = logger }
LoggersCopy(p) ==
    /\ lpc[p] = "copy"
    /\ ret' = [ret EXCEPT ![p] = [n \in DOMAIN loggers |-> loggers[n]]]
    /\ lpc' = [lpc EXCEPT ![p] = "copied"]
    /\ UNCHANGED << loggers, lock, configureLoggerHandler, lname, llogger,
                    lhandler, lref, nextLogger, panics, configured,
                    creation >>
    /\ UNCHANGED routerVars

\* return ret: the caller gets the map Loggers built.
LoggersRef == "own"

\* return ret, and the deferred Unlock.
LoggersReturn(p) ==
    /\ lpc[p] = "copied"
    /\ lref' = [lref EXCEPT ![p] = LoggersRef]
    /\ Unlock(p)
    /\ lpc' = [lpc EXCEPT ![p] = "idle"]
    /\ UNCHANGED << loggers, configureLoggerHandler, lname, llogger, lhandler,
                    ret, nextLogger, panics, configured, creation >>
    /\ UNCHANGED routerVars

\* What a caller may do to a map it holds: delete a key, or set one to nil.
Mutations(m) ==
    {Delete(m, n) : n \in Names} \cup {Put(m, n, NilLogger) : n \in Names}

\* The caller of Loggers changes the map it was given.  A Go map is a
\* reference: the write lands in the map Loggers built when that is the one
\* returned, and in the registry's map had Loggers returned that.
MutateCopy(p) ==
    /\ lpc[p] = "idle"
    /\ lref[p] \in {"own", "registry"}
    /\ IF lref[p] = "own"
       THEN /\ \E m \in Mutations(ret[p]) : ret' = [ret EXCEPT ![p] = m]
            /\ UNCHANGED loggers
       ELSE /\ \E m \in Mutations(loggers) : loggers' = m
            /\ UNCHANGED ret
    /\ lref' = [lref EXCEPT ![p] = IF lref[p] = "own" THEN "mutated"
                                    ELSE "registry"]
    /\ UNCHANGED << lock, configureLoggerHandler, lpc, lname, llogger,
                    lhandler, nextLogger, panics, configured, creation >>
    /\ UNCHANGED routerVars

\* The caller lets go of the map it was given.
DropCopy(p) ==
    /\ lpc[p] = "idle"
    /\ lref[p] # "none"
    /\ lref' = [lref EXCEPT ![p] = "none"]
    /\ ret' = [ret EXCEPT ![p] = EmptyMap]
    /\ UNCHANGED << loggers, lock, configureLoggerHandler, lpc, lname,
                    llogger, lhandler, nextLogger, panics, configured,
                    creation >>
    /\ UNCHANGED routerVars

\* configureLoggerHandler = handler (no lock is taken).
SetConfigureLoggerHandler ==
    /\ \E handler \in Handlers :
         /\ handler # configureLoggerHandler
         /\ configureLoggerHandler' = handler
    /\ UNCHANGED << loggers, lock, lpc, lname, llogger, lhandler, ret, lref,
                    nextLogger, panics, configured, creation >>
    /\ UNCHANGED routerVars

\* Goroutines calling into the registry, in any interleaving.
NextLog ==
    \/ \E p \in Callers : LoggerLock(p)
    \/ \E p \in Callers : LoggerLookup(p)
    \/ \E p \in Callers : LoggerNew(p)
    \/ \E p \in Callers : LoggerConfigure(p)
    \/ \E p \in Callers : LoggerStore(p)
    \/ \E p \in Callers : LoggerReturn(p)
    \/ \E p \in Callers : LoggersLock(p)
    \/ \E p \in Callers : LoggersCopy(p)
    \/ \E p \in Callers : LoggersReturn(p)
    \/ \E p \in Callers : MutateCopy(p)
    \/ \E p \in Callers : DropCopy(p)
    \/ SetConfigureLoggerHandler

SpecLog == Init /\ [][NextLog]_vars

----------------------------------------------------------------------------
\* Positions of the dispatcher in or after the finalizer.
FinPcs == {"fin", "fin_timeout", "fin_status", "fin_header", "fin_body", "done"}

\* C1: on every path the status line is written exactly once: never twice in
\* any state, and once when the request has ended.
C1_StatusWrittenOnce ==
    /\ wire.statusWrites <= 1
    /\ pc = "done" => wire.statusWrites = 1

\* A timed-out request has ended with its worker still running.
C1_Witness ==
    /\ pc = "done"
    /\ timedOut
    /\ wpc \in {"pre", "chk", "handle", "ret"}
    /\ wire.statusWrites = 1

\* C2: when the deadline won the race, the written body carries the fixed
\* ResponseTimeout error and nothing the worker stored in the Response.
C2_TimeoutBodyFixed ==
    (timedOut /\ wire.bodyWrites >= 1)
        => /\ wire.err = "ResponseTimeout"
           /\ wire.result = None

\* C3: when the deadline won the race, the status written is the canonical
\* status of ResponseTimeout, whatever the worker assigned to httpStatus.
C3_TimeoutStatusFixed ==
    (timedOut /\ wire.statusWrites >= 1)
        => wire.status = DefaultStatusCode("ResponseTimeout")

\* C4 (as claimed): a request whose route matched is finalized only after the
\* worker signalled completion or the deadline timer fired.
C4_FinalizedAfterWorkerOrDeadline ==
    (matchOutcome = "ok" /\ pc \in FinPcs)
        => (wpc = "exit" \/ timerFired)

\* C4 (amended): a request whose route matched is finalized only after the
\* worker signalled completion, the deadline timer fired, or the payload's
\* incoming context was cancelled.
C4_FinalizedAfterWorkerDeadlineOrParent ==
    (matchOutcome = "ok" /\ pc \in FinPcs)
        => (wpc = "exit" \/ timerFired \/ parentCancelled)

\* The parent context released the dispatcher: the request has ended, the
\* worker still runs and no deadline fired.
C4_Witness ==
    /\ matchOutcome = "ok"
    /\ pc = "done"
    /\ parentCancelled
    /\ wpc \in {"pre", "chk", "handle", "ret", "cancel"}
    /\ ~timerFired

\* The handler was invoked.
HandlerInvoked == \E k \in 1..Len(invoked) : invoked[k] = HandlerMark

\* C5 (as claimed): after a panic in the worker task, a response written with
\* the deadline not fired carries the internal-fault error and its status.
C5_PanicWrittenUnlessDeadline ==
    (workerPanicked /\ pc = "done" /\ ~escaped /\ ~timerFired)
        => /\ wire.status = DefaultStatusCode(ErrorFromRecoveringPanic)
           /\ wire.err = ErrorFromRecoveringPanic

\* C5 (amended): a panic in the worker task is recovered in callHandler,
\* which ends with Response.Err the internal-fault error (until a timeout
\* finalization replaces it) and returns that error's canonical status; the
\* worker goes on to its completion signal; and a response written with the
\* deadline not fired and the payload's incoming context not cancelled
\* carries that error and status.
C5_PanicRecovered ==
    /\ workerPanicked
         => /\ wpc \in {"ret", "cancel", "exit"}
            /\ lstatus = DefaultStatusCode(ErrorFromRecoveringPanic)
            /\ respErr = ErrorFromRecoveringPanic \/ timedOut
    /\ (workerPanicked /\ pc = "done" /\ ~timerFired /\ ~parentCancelled)
         => /\ wire.statusWrites = 1
            /\ wire.status = DefaultStatusCode(ErrorFromRecoveringPanic)
            /\ IF escaped
               THEN wire.bodyWrites = 0
               ELSE wire.bodyWrites = 1 /\ wire.err = ErrorFromRecoveringPanic

\* The second processor panicked after the first returned a non-default
\* hint, and the response was written after the worker's signal.
C5_Witness ==
    /\ workerPanicked
    /\ invoked = << 1, 2 >>
    /\ pc = "done"
    /\ ~timerFired
    /\ ~parentCancelled
    /\ wire.status = 500
    /\ wire.err = ErrorFromRecoveringPanic

\* C6: processors are invoked in registration order; once a processor's call
\* has left Response.Err set, no later processor and no handler is invoked;
\* the handler is invoked only after every processor returned with
\* Response.Err unset.
C6_ChainFailFast ==
    /\ Len(invoked) <= nprocs + 1
    /\ \A k \in 1..Len(invoked) : invoked[k] = k
    /\ \A k \in 1..Len(errSeen) : errSeen[k] => Len(invoked) = k
    /\ procErr.idx # 0 => Len(invoked) = procErr.idx
    /\ HandlerInvoked
         => /\ Len(errSeen) = nprocs
            /\ \A k \in 1..nprocs : ~errSeen[k]

\* The first of two processors stored an error and the worker has ended.
C6_Witness ==
    /\ nprocs = 2
    /\ procErr.idx = 1
    /\ errSeen = << TRUE >>
    /\ wpc = "exit"
    /\ invoked = << 1 >>

\* C7: when a processor stored an error and the request is not timed out
\* (and its incoming context is not cancelled), the status written is the
\* processor's hint if it is not 200, and else the canonical status of the
\* processor's error.
C7_ProcessorErrorStatus ==
    (procErr.idx # 0 /\ pc = "done" /\ ~timedOut /\ ~parentCancelled)
        => wire.status = IF procErr.hint # StatusOK
                         THEN procErr.hint
                         ELSE DefaultStatusCode(procErr.err)

\* C8: on a decode failure ServeHTTP writes the bad-request status once, a
\* body carrying the decode error, and runs no further stage.
C8_DecodeFailureResponse ==
    decodeOutcome = "fail"
        => /\ wire.statusWrites = 1
           /\ wire.status = DefaultStatusCode(RequestJSONInvalidErr)
           /\ wire.bodyWrites = 1
           /\ wire.err = RequestJSONInvalidErr
           /\ matchOutcome = "none"
           /\ wpc = "idle"
           /\ invoked = << >>

\* C9: when the route matcher returns an error, no worker is started and no
\* processor or handler is invoked, the status written is 404 and the body
\* written carries UndefinedOperation.
C9_RouteNotFound ==
    /\ matchOutcome = "err" => wpc = "idle" /\ invoked = << >>
    /\ (matchOutcome = "err" /\ pc = "done")
         => /\ wire.statusWrites = 1
            /\ wire.status = 404
            /\ IF escaped
               THEN wire.bodyWrites = 0
               ELSE wire.bodyWrites = 1 /\ wire.err = "UndefinedOperation"

\* The not-found response has been written.
C9_Witness ==
    /\ matchOutcome = "err"
    /\ pc = "done"
    /\ wire.status = 404
    /\ wire.bodyWrites = 1
    /\ wire.err = "UndefinedOperation"

\* C10: whenever the status has been written, the Content-Type header had
\* been set to application/json before.
C10_ContentTypeBeforeStatus ==
    wire.statusWrites >= 1 => wire.contentType

\* C11 (as claimed): with the deadline disabled, a request whose handler
\* stored a result is never marked timed out and the response written is the
\* handler's result with no error.
C11_DisabledDeadlineResult ==
    (ResponseTimeout <= 0 /\ respResult # None /\ pc = "done" /\ ~escaped)
        => /\ ~timedOut
           /\ wire.result = respResult
           /\ wire.err = None

\* C11 (amended): with the deadline disabled the timer never delivers and
\* the request is never marked timed out; and when the handler stored a
\* result and the payload's incoming context was not cancelled, the response
\* written is the handler's result with no error (nothing, if the encoder
\* failed).
C11_DisabledDeadlineResultUnlessCancelled ==
    /\ ResponseTimeout <= 0 => ~timerFired /\ ~timedOut
    /\ (ResponseTimeout <= 0 /\ respResult # None /\ pc = "done"
           /\ ~parentCancelled)
         => /\ wire.statusWrites = 1
            /\ IF escaped
               THEN wire.bodyWrites = 0
               ELSE /\ wire.bodyWrites = 1
                    /\ wire.result = respResult
                    /\ wire.err = None

\* With the deadline disabled, the handler's result was written after two
\* processors passed.
C11_Witness ==
    /\ ResponseTimeout <= 0
    /\ nprocs = 2
    /\ pc = "done"
    /\ ~parentCancelled
    /\ wire.bodyWrites = 1
    /\ wire.result \in HandlerResults
    /\ wire.err = None

\* C12: a call of HandlePayload with a Response that an earlier call has
\* finalized writes nothing: neither status, header nor body changes in any
\* step of a later call, and no status or body is ever written twice.
C12_FinalizeIdempotent ==
    /\ [][calls >= 2 => (wire' = wire /\ contentType' = contentType)]_vars
    /\ [](wire.statusWrites <= 1 /\ wire.bodyWrites <= 1)

\* A second call has run its finalizer on the finalized Response and
\* returned; the first call had written a result.
C12_Witness ==
    /\ calls = 2
    /\ pc = "done"
    /\ matchOutcome = "err"
    /\ respErr = "UndefinedOperation"
    /\ wire.statusWrites = 1
    /\ wire.status = StatusOK
    /\ wire.result \in HandlerResults

\* C13: with a positive ResponseTimeout, a request that has reached
\* HandlePayload is eventually finalized and its status written, whatever
\* the worker does or fails to do.
C13_PositiveDeadlineTerminates ==
    (pc = "match" /\ ResponseTimeout > 0)
        ~> (pc = "done" /\ wire.statusWrites = 1)

\* The deadline ended a request whose first processor never returned.
C13_Witness ==
    /\ ResponseTimeout > 0
    /\ pc = "done"
    /\ timedOut
    /\ ~parentCancelled
    /\ nprocs > 0
    /\ wpc = "pre"
    /\ invoked = << >>
    /\ wire.statusWrites = 1

\* C14: once a timed-out request has been finalized, no step (the worker's
\* remaining processors, handler, return and cancel among them) changes what
\* was written to the wire or the headers.
C14_WorkerLeavesWire ==
    [][(pc = "done" /\ timedOut)
          => (wire' = wire /\ contentType' = contentType)]_vars

\* After a timed-out response without a result was written, the worker ran
\* its handler, which stored a result, and ended.
C14_Witness ==
    /\ pc = "done"
    /\ timedOut
    /\ wpc = "exit"
    /\ wire.bodyWrites = 1
    /\ wire.result = None
    /\ respResult \in HandlerResults

\* C15: for a request finalized on its worker's completion signal, with
\* the error the worker left in the Response and the status it returned: the
\* status written is the canonical status of the error when there is an
\* error and the status is the default 200, and else the status unchanged.
C15_StatusResolution ==
    (matchOutcome = "ok" /\ pc = "done" /\ ~timedOut /\ ~parentCancelled)
        => wire.status = IF respErr # None /\ lstatus = StatusOK
                         THEN DefaultStatusCode(respErr)
                         ELSE lstatus

\* Positions of the finalizer from its write of resp.Err to its last read.
FinReadPcs == {"fin_timeout", "fin_status", "fin_header", "fin_body"}

\* C16: nothing orders the worker's writes against a timed-out finalizer:
\* wherever the finalizer stands between its accesses to resp and
\* httpStatus, the worker's next call or assignment can be the next step.
C16_WorkerUnsynchronised ==
    (timedOut /\ pc \in FinReadPcs)
        => /\ wpc = "pre" => ENABLED WorkerPreprocess
           /\ wpc = "handle" => ENABLED WorkerHandle
           /\ wpc = "ret" => ENABLED WorkerReturn

\* The race has happened: the handler stored its error after the timed-out
\* finalizer stored ResponseTimeout and before it encoded the Response.
C16_Witness ==
    /\ timedOut
    /\ pc = "done"
    /\ wire.bodyWrites = 1
    /\ wire.err \in HandlerErrs

\* C17: a panic of the route matcher is recovered by the finalizer's guard:
\* no worker is started, the panic is no longer pending once the guard has
\* run, and the request ends with the status of the internal-fault error
\* written once and that error in the body (no body if the encoder failed,
\* the one fault that is re-raised).
C17_MatcherPanicRecovered ==
    /\ matchOutcome = "panic" => wpc = "idle"
    /\ (matchOutcome = "panic" /\ pc # "fin") => ~pendingPanic
    /\ (matchOutcome = "panic" /\ pc = "done")
         => /\ wire.statusWrites = 1
            /\ wire.status = DefaultStatusCode(ErrorFromRecoveringPanic)
            /\ IF escaped
               THEN wire.bodyWrites = 0
               ELSE wire.bodyWrites = 1 /\ wire.err = ErrorFromRecoveringPanic

\* The internal-fault response of a matcher panic has been written.
C17_Witness ==
    /\ matchOutcome = "panic"
    /\ pc = "done"
    /\ ~escaped
    /\ wire.status = 500
    /\ wire.err = ErrorFromRecoveringPanic

\* C18: with a non-positive duration the channel never delivers and the
\* timeout branch is never taken; the branch is taken only after a
\* delivery; a delivery happens at most once and only for a positive
\* duration; and for a positive duration it does happen while the select
\* waits.
C18_TimeoutChan ==
    /\ [](ResponseTimeout <= 0 => ~timerFired /\ ~timedOut)
    /\ [](timedOut => timerFired)
    /\ [][timerFired' # timerFired
            => (~timerFired /\ ResponseTimeout > 0)]_vars
    /\ (pc = "select" /\ ResponseTimeout > 0)
           ~> (timerFired \/ pc # "select")

\* With a non-positive duration the request ended on the worker's signal.
C18_Witness ==
    /\ ResponseTimeout <= 0
    /\ matchOutcome = "ok"
    /\ pc = "done"
    /\ wpc = "exit"
    /\ ~parentCancelled
    /\ ~timedOut

\* C19: a worker whose callHandler has ended goes on to cancel the derived
\* context, and has cancelled it when it ends; with the deadline disabled, a
\* request whose processors and handler all return is eventually finalized.
C19_WorkerSignalsCompletion ==
    /\ [](wpc = "exit" => cancelCalled)
    /\ (wpc = "ret") ~> (wpc = "exit")
    /\ (pc = "select" /\ ResponseTimeout <= 0) ~> (pc = "done")

\* With the deadline disabled, a request whose handler panicked has ended
\* on the worker's signal.
C19_Witness ==
    /\ ResponseTimeout <= 0
    /\ workerPanicked
    /\ HandlerInvoked
    /\ ~parentCancelled
    /\ wpc = "exit"
    /\ pc = "done"

\* C20: once HandlePayload has left the select of a matched route, the
\* derived context is cancelled: before the finalizer writes anything.
C20_CancelledBeforeWrite ==
    (matchOutcome = "ok" /\ pc \in FinPcs) => cancelCalled

\* The timed-out finalizer is about to start, the handler is still to run,
\* and the derived context is cancelled by HandlePayload itself.
C20_Witness ==
    /\ matchOutcome = "ok"
    /\ pc = "fin"
    /\ timedOut
    /\ wpc = "handle"
    /\ ~parentCancelled
    /\ cancelCalled
    /\ wire.statusWrites = 0

\* callHandler has returned and the goroutine has stored its status.
WorkerCompleted == wpc \in {"cancel", "exit"}

\* The hint of the last processor of the chain, 200 for an empty chain.
LastHint == IF nprocs = 0 THEN StatusOK ELSE hints[Len(hints)]

Orphans ==
    {c \in DOMAIN configured :
        /\ ~(c[1] \in DOMAIN loggers /\ loggers[c[1]] = c[2])
        /\ ~(\E p \in Callers : /\ lpc[p] = "store"
                                /\ lname[p] = c[1]
                                /\ llogger[p] = c[2])}

\* C22: in every interleaving of goroutines calling Logger and Loggers,
\* (a) at most one goroutine is past the lock, and a logger registered
\*     under a name stays the one logger of that name;
\* (b) the registry changes only by the store of a Logger call;
\* (c) every Logger call that returns, returns the logger registered under
\*     its name;
\* (d) a logger created by Logger has had the configure handler called on
\*     it exactly once by the time it is in the registry, if its creating
\*     call found a handler set, and never otherwise; every other call of
\*     the handler is one that panicked, on a logger that was dropped;
\* (e) the map Loggers returns holds the registry's entries, is never the
\*     registry's own map, and a caller changing it leaves the registry
\*     unchanged.
C22_LoggerRegistry ==
    /\ [](/\ Cardinality(lock) <= 1
          /\ \A p \in Callers : lpc[p] # "idle" <=> p \in lock)
    /\ [][\A n \in DOMAIN loggers :
             n \in DOMAIN loggers' /\ loggers'[n] = loggers[n]]_vars
    /\ [][loggers' # loggers
             => \E p \in Callers : /\ lpc[p] = "store"
                                   /\ lpc'[p] = "return"
                                   /\ loggers' = Put(loggers, lname[p],
                                                     llogger[p])]_vars
    /\ [][\A p \in Callers :
             (lpc[p] = "return" /\ lpc'[p] = "idle")
                => /\ lname[p] \in DOMAIN loggers
                   /\ llogger[p] = loggers[lname[p]]
                   /\ llogger[p] # NilLogger]_vars
    /\ [](\A n \in DOMAIN loggers :
             Count(configured, << n, loggers[n] >>)
                 = IF n \in DOMAIN creation /\ creation[n] # "nil"
                   THEN 1 ELSE 0)
    /\ [](/\ \A c \in DOMAIN configured : configured[c] = 1
          /\ Cardinality(Orphans) = panics)
    /\ [](\A p \in Callers :
             /\ lpc[p] = "copied" => ret[p] = loggers
             /\ lref[p] \in {"none", "own", "mutated"})
    /\ [][\A p \in Callers :
             (lref[p] = "own" /\ lref'[p] = "mutated")
                => loggers' = loggers]_vars

\* After a Logger("router") call that the handler's panic ended, a later
\* call created, configured and registered the logger; one goroutine took
\* the registry's map from Loggers and deleted the "" entry from it, while
\* the registry still has it; another is about to return the registered
\* logger from a further Logger("router") call, with no handler set any more.
C22_Witness ==
    /\ "router" \in DOMAIN loggers
    /\ panics = 1
    /\ creation["router"] = "handler"
    /\ Count(configured, << "router", loggers["router"] >>) = 1
    /\ configureLoggerHandler = "nil"
    /\ \E p, q \in Callers :
         /\ p # q
         /\ lpc[p] = "return"
         /\ lname[p] = "router"
         /\ llogger[p] = loggers["router"]
         /\ lref[q] = "mutated"
         /\ ret[q] = Delete(loggers, "")
         /\ loggers[""] = StandardLogger

====
